---- MODULE Spec2Model ----
(***************************************************************************)
(* Model of src/app.py, the Flask backend of the personal health SMS bot:  *)
(* the /android-webhook and /trigger-daily-checkin handlers, the Google    *)
(* Sheet helpers they call (append_symptom_log, get_last_entries) and the  *)
(* notifier (send_sms_via_android).                                        *)
(*                                                                         *)
(* Text is modelled as a sequence of one-character strings, so that        *)
(* str.strip, str.lower, the substring tests and the regular expression    *)
(* \b(10|[1-9])\b are computed character by character.                     *)
(***************************************************************************)
EXTENDS Integers, Sequences, FiniteSets, TLC

\* ------------------------------------------------------------------ bounds
\* Largest number of chunks concatenated into a message body (SpecClassify).
MaxParts == 3
\* Largest number of data rows the worksheet grows to (Spec).
MaxRows == 3

\* --------------------------------------------------------------- constants
\* entry['body'][:30], src/app.py line 365
TruncLen == 30
\* get_last_entries(3), src/app.py line 357
SummaryCount == 3

\* -------------------------------------------------------------------- text
UpperLetters == <<"A","B","C","D","E","F","G","H","I","J","K","L","M",
                  "N","O","P","Q","R","S","T","U","V","W","X","Y","Z">>
LowerLetters == <<"a","b","c","d","e","f","g","h","i","j","k","l","m",
                  "n","o","p","q","r","s","t","u","v","w","x","y","z">>
DigitChars == <<"0","1","2","3","4","5","6","7","8","9">>

Range(f) == {f[i] : i \in DOMAIN f}
Min(S) == CHOOSE x \in S : \A y \in S : x <= y
Max(S) == CHOOSE x \in S : \A y \in S : x >= y

\* The characters str.strip() removes (ASCII whitespace).
Whitespace == {" ", "\t", "\n", "\r"}

\* The characters the regular expression class \w matches (ASCII part).
WordChars == Range(UpperLetters) \cup Range(LowerLetters) \cup Range(DigitChars) \cup {"_"}

\* str.lower() on one character.
LowerChar(c) ==
    IF \E i \in 1..26 : UpperLetters[i] = c
    THEN LowerLetters[CHOOSE i \in 1..26 : UpperLetters[i] = c]
    ELSE c

\* body.lower()
lower(s) == [i \in 1..Len(s) |-> LowerChar(s[i])]

\* (mutant) the body is used as received, not trimmed.
strip_none(s) == s

\* body.strip(): drop the leading and trailing whitespace.
strip(s) ==
    LET keep == {i \in 1..Len(s) : s[i] \notin Whitespace}
    IN  IF keep = {} THEN <<>> ELSE SubSeq(s, Min(keep), Max(keep))

\* sub in s
Contains(s, sub) ==
    \E i \in 1..(Len(s) - Len(sub) + 1) : SubSeq(s, i, i + Len(sub) - 1) = sub

\* s[:n]
Take(s, n) == SubSeq(s, 1, IF Len(s) < n THEN Len(s) ELSE n)

\* int(s) for a string of decimal digits.
DigitVal(c) == (CHOOSE i \in 1..10 : DigitChars[i] = c) - 1
RECURSIVE int(_)
int(s) == IF s = <<>> THEN 0 ELSE 10 * int(SubSeq(s, 1, Len(s) - 1)) + DigitVal(s[Len(s)])

\* str(n) for n >= 0: the decimal digits of n.
RECURSIVE str(_)
str(n) == IF n < 10 THEN <<DigitChars[n + 1]>> ELSE str(n \div 10) \o <<DigitChars[(n % 10) + 1]>>

\* ------------------------------------------- re.search(r'\b(10|[1-9])\b', s)
IsWordAt(s, i) == i >= 1 /\ i <= Len(s) /\ s[i] \in WordChars

\* \b just before index i: exactly one of s[i-1], s[i] is a word character.
WordBoundary(s, i) == IsWordAt(s, i - 1) # IsWordAt(s, i)

\* (mutant) the pattern without its closing \b: r'\b(10|[1-9])'.
MatchAt_no_closing_boundary(s, i) ==
    IF ~WordBoundary(s, i) THEN <<>>
    ELSE IF i + 1 <= Len(s) /\ s[i] = "1" /\ s[i + 1] = "0" THEN <<"1", "0">>
    ELSE IF s[i] \in (Range(DigitChars) \ {"0"}) THEN <<s[i]>>
    ELSE <<>>

\* The group the pattern matches starting at index i, <<>> when it does not match.
\* The alternative 10 is tried before [1-9].
MatchAt(s, i) ==
    IF ~WordBoundary(s, i) THEN <<>>
    ELSE IF i + 1 <= Len(s) /\ s[i] = "1" /\ s[i + 1] = "0" /\ WordBoundary(s, i + 2)
         THEN <<"1", "0">>
    ELSE IF s[i] \in (Range(DigitChars) \ {"0"}) /\ WordBoundary(s, i + 1)
         THEN <<s[i]>>
    ELSE <<>>

\* group(1) of the leftmost match, <<>> when urgency_match is None.
urgency_match(s) ==
    LET hits == {i \in 1..Len(s) : MatchAt(s, i) # <<>>}
    IN  IF hits = {} THEN <<>> ELSE MatchAt(s, Min(hits))

\* ----------------------------------------------------------- configuration
\* The module globals read from the environment (src/app.py lines 60-63).
\* GOOGLE_CREDENTIALS, GOOGLE_SHEET_ID and ANDROID_SEND_URL are modelled by
\* whether they are set; CRON_SECRET by its value (None when unset).
None == "<None>"
Secrets == {"", "s3cret", "other"}

VARIABLES GOOGLE_CREDENTIALS, GOOGLE_SHEET_ID, ANDROID_SEND_URL, CRON_SECRET,
          sheet, req

config == <<GOOGLE_CREDENTIALS, GOOGLE_SHEET_ID, ANDROID_SEND_URL, CRON_SECRET>>
vars == <<GOOGLE_CREDENTIALS, GOOGLE_SHEET_ID, ANDROID_SEND_URL, CRON_SECRET, sheet, req>>

\* The request slots (concurrent workers of the WSGI server).
Req == {"w1", "w2"}

\* --------------------------------------------------------------- worksheet
\* The first worksheet of the spreadsheet: an optional header row and the data
\* rows appended so far, each <<date, time, body, urgency>>.
HeaderRow == <<"Date", "Time", <<"S","y","m","p","t","o","m">>, <<"U","r","g","e","n","c","y">>>>

\* get_google_sheet(): raises ValueError when a setting is missing.
get_google_sheet_error ==
    IF ~GOOGLE_CREDENTIALS THEN "GOOGLE_CREDENTIALS environment variable not set"
    ELSE IF ~GOOGLE_SHEET_ID THEN "GOOGLE_SHEET_ID environment variable not set"
    ELSE ""

\* (mutant) the row is inserted above the data rows.
append_row_on_top(sh, row) == [sh EXCEPT !.rows = <<row>> \o @]

\* sheet.append_row(row): the row goes after the last row of the worksheet.
append_row(sh, row) == [sh EXCEPT !.rows = Append(@, row)]

\* The row append_symptom_log builds and appends.
append_symptom_log(sh, now, body, urgency) ==
    append_row(sh, <<now[1], now[2], body, urgency>>)

\* sheet.get_all_values(): every row as a list of cell texts; a number cell
\* reads back as its decimal text.
get_all_values(sh) ==
    (IF sh.header THEN <<HeaderRow>> ELSE <<>>)
    \o [i \in 1..Len(sh.rows) |->
          <<sh.rows[i][1], sh.rows[i][2], sh.rows[i][3], str(sh.rows[i][4])>>]

KeepWide(row) == Len(row) >= 4

\* get_last_entries(count) on the values read from the worksheet.
get_last_entries(all_values, count) ==
    IF Len(all_values) <= 1 THEN <<>>
    ELSE LET data_rows == Tail(all_values)
             last_rows == IF Len(data_rows) >= count
                          THEN SubSeq(data_rows, Len(data_rows) - count + 1, Len(data_rows))
                          ELSE data_rows
             wide == SelectSeq(last_rows, KeepWide)
         IN  [i \in 1..Len(wide) |->
                [date |-> wide[i][1], time |-> wide[i][2],
                 body |-> wide[i][3], urgency |-> wide[i][4]]]

\* ---------------------------------------------------------------- notifier
\* send_sms_via_android: False when ANDROID_SEND_URL is not set or the GET
\* raises a RequestException (http_ok = FALSE), True otherwise.
send_sms_via_android(url_set, http_ok) == url_set /\ http_ok

\* The texts handed to the notifier, by kind; a summary carries its lines.
Sms(kind, lines) == [kind |-> kind, lines |-> lines]
NoSms == Sms("", <<>>)

\* One bullet of the summary: date, first 30 characters of the body, urgency.
summary_line(entry) ==
    [date |-> entry.date, body |-> Take(entry.body, TruncLen), urgency |-> entry.urgency]

summary_sms(entries) ==
    IF entries = <<>> THEN Sms("no_entries", <<>>)
    ELSE Sms("summary", [i \in 1..Len(entries) |-> summary_line(entries[i])])

\* --------------------------------------------------------------- responses
Resp(code, status, action, urgency, entries_count, error, message) ==
    [code |-> code, status |-> status, action |-> action, urgency |-> urgency,
     entries_count |-> entries_count, error |-> error, message |-> message]
NoResp == Resp(0, "", "", 0, -1, "", "")
ErrorResp(code, text) == Resp(code, "", "", 0, -1, text, "")

\* ------------------------------------------------------ webhook: dispatch
\* (mutant) "summary" is tested before "link".
intent_of_summary_first(body) ==
    LET body_lower == lower(body)
    IN  IF Contains(body_lower, <<"s","u","m","m","a","r","y">>) THEN "summary"
        ELSE IF Contains(body_lower, <<"l","i","n","k">>) THEN "link"
        ELSE IF urgency_match(body) # <<>> THEN "log"
        ELSE "help"

\* The branch android_webhook takes for a trimmed, non-empty body.
intent_of(body) ==
    LET body_lower == lower(body)
    IN  IF Contains(body_lower, <<"l","i","n","k">>) THEN "link"
        ELSE IF Contains(body_lower, <<"s","u","m","m","a","r","y">>) THEN "summary"
        ELSE IF urgency_match(body) # <<>> THEN "log"
        ELSE "help"

\* (mutant) the handler reports a failed send.
webhook_return_checks_sent(branch, urgency, entries, sent) ==
    IF ~sent THEN ErrorResp(500, "Failed to send SMS")
    ELSE CASE branch = "link"    -> Resp(200, "success", "sent_link", 0, -1, "", "")
           [] branch = "summary" -> Resp(200, "success", "sent_summary", 0, Len(entries), "", "")
           [] branch = "log"     -> Resp(200, "success", "logged_symptom", urgency, -1, "", "")
           [] OTHER              -> Resp(200, "success", "sent_help", 0, -1, "", "")

\* The JSON the webhook returns at the end of a branch. The result of
\* send_sms_via_android (sent) is discarded by the handler.
webhook_return(branch, urgency, entries, sent) ==
    CASE branch = "link"    -> Resp(200, "success", "sent_link", 0, -1, "", "")
      [] branch = "summary" -> Resp(200, "success", "sent_summary", 0, Len(entries), "", "")
      [] branch = "log"     -> Resp(200, "success", "logged_symptom", urgency, -1, "", "")
      [] OTHER              -> Resp(200, "success", "sent_help", 0, -1, "", "")

\* The first outbound call of a branch: the summary reads the worksheet, the
\* log entry appends to it, the link and the help text go straight to the
\* notifier.
first_call(branch) ==
    CASE branch = "summary" -> "read"
      [] branch = "log"     -> "append"
      [] OTHER              -> "send"

\* (mutant) the append is made again.
after_store_call_retry(op) == IF op = "append" THEN "append" ELSE "send"

\* What follows a store call that returned: the notifier, once.
after_store_call(op) == "send"

\* (mutant) the error is recorded and the branch goes on to the notifier.
on_exception_continues(text) == [pc |-> "send", resp |-> ErrorResp(500, text)]

\* except Exception as e: the handler answers 500 with str(e) and goes no further.
on_exception(text) == [pc |-> "done", resp |-> ErrorResp(500, text)]

\* ---------------------------------------------------------- cron: checks
\* (mutant) the secret given is not compared.
cron_gate_any_secret(cron_secret, provided_secret) ==
    IF cron_secret = None \/ cron_secret = "" THEN "500" ELSE "ok"

\* "500" when CRON_SECRET is not configured, "403" on a mismatch, "ok" otherwise.
cron_gate(cron_secret, provided_secret) ==
    IF cron_secret = None \/ cron_secret = "" THEN "500"
    ELSE IF provided_secret # cron_secret THEN "403"
    ELSE "ok"

cron_return(success) ==
    IF success THEN Resp(200, "success", "", 0, -1, "", "Daily check-in sent")
    ELSE Resp(500, "error", "", 0, -1, "", "Failed to send SMS")

\* ---------------------------------------------------------------- requests
\* The JSON payload of a POST: json is "malformed" (get_json raises a
\* json.JSONDecodeError), "rejected" (get_json raises the library's HTTP
\* error instead), "none" (null, {} or another falsy value), "array" (a truthy
\* value that is no object) or "object"; has_body and is_str describe its
\* "body" member.
Payload(json, has_body, is_str, body) ==
    [json |-> json, has_body |-> has_body, is_str |-> is_str, body |-> body]
NoPayload == Payload("none", FALSE, FALSE, <<>>)
TextPayload(body) == Payload("object", TRUE, TRUE, body)

\* A request slot: where its handler stands (pc), its input, the handler's
\* locals, and the calls it has made so far (events).
IdleReq ==
    [pc |-> "idle", route |-> "", payload |-> NoPayload, secret |-> None,
     body |-> <<>>, branch |-> "", urgency |-> 0, entries |-> <<>>,
     sms |-> NoSms, sent |-> FALSE, events |-> <<>>, resp |-> NoResp]

\* return jsonify(...), code
answer(rq, resp) == [rq EXCEPT !.pc = "done", !.resp = resp, !.events = Append(@, "respond")]

\* An exception reaches the handler's except clause.
raise(rq, text) ==
    LET to == on_exception(text)
    IN  [rq EXCEPT !.pc = to.pc, !.resp = to.resp,
                   !.events = IF to.pc = "done" THEN Append(@, "respond") ELSE @]

\* android_webhook from its entry to its first outbound call: parse, trim,
\* reject, classify.
webhook_entry(p) ==
    LET start == [IdleReq EXCEPT !.route = "webhook", !.payload = p]
    IN  CASE p.json = "malformed" ->
               answer(start, ErrorResp(400, "Invalid JSON payload"))
          [] p.json = "rejected" ->
               raise(start, "400 Bad Request")
          [] p.json = "none" ->
               answer(start, ErrorResp(400, "No JSON payload received"))
          [] p.json = "array" ->
               raise(start, "object has no attribute 'get'")
          [] p.json = "object" /\ p.has_body /\ ~p.is_str ->
               raise(start, "object has no attribute 'strip'")
          [] OTHER ->
               LET body == strip(IF p.has_body THEN p.body ELSE <<>>)
                   branch == intent_of(body)
               IN  IF body = <<>>
                   THEN answer(start, ErrorResp(400, "Empty message body"))
                   ELSE [start EXCEPT
                           !.body = body,
                           !.branch = branch,
                           !.urgency = IF branch = "log" THEN int(urgency_match(body)) ELSE 0,
                           !.sms = CASE branch = "link" -> Sms("link", <<>>)
                                     [] branch = "help" -> Sms("help", <<>>)
                                     [] OTHER -> NoSms,
                           !.pc = first_call(branch)]

\* trigger_daily_checkin from its entry to the notifier call.
cron_entry(provided_secret) ==
    LET start == [IdleReq EXCEPT !.route = "cron", !.secret = provided_secret]
        gate == cron_gate(CRON_SECRET, provided_secret)
    IN  CASE gate = "500" -> answer(start, ErrorResp(500, "CRON_SECRET not configured on server"))
          [] gate = "403" -> answer(start, ErrorResp(403, "Invalid or missing secret"))
          [] OTHER -> [start EXCEPT !.branch = "checkin", !.sms = Sms("checkin", <<>>),
                                    !.pc = "send"]

\* The error a store call ends in, "" when it succeeds.
store_error(api_ok) ==
    IF get_google_sheet_error # "" THEN get_google_sheet_error
    ELSE IF ~api_ok THEN "APIError" ELSE ""

PendingAppends == Cardinality({q \in Req : req[q].pc = "append"})

\* ------------------------------------------------------------------ inputs
Clock == {<<"2024-05-01", "08:00:00">>, <<"2024-05-02", "21:30:00">>}

MainBodies ==
    { <<>>, <<" ">>, <<"L","i","n","k"," ","7">>, <<"S","u","m","m","a","r","y">>,
      <<" ","1","0"," ">>, <<"h","i">> }

MainPayloads ==
    { Payload("malformed", FALSE, FALSE, <<>>),
      Payload("rejected", FALSE, FALSE, <<>>), NoPayload,
      Payload("array", FALSE, FALSE, <<>>),
      Payload("object", FALSE, FALSE, <<>>),
      Payload("object", TRUE, FALSE, <<>>) }
    \cup {TextPayload(b) : b \in MainBodies}

ProvidedSecrets == Secrets \cup {None}

\* Bodies for the classification runs: up to MaxParts chunks, concatenated.
Chunks ==
    { <<"l","i">>, <<"N","K">>, <<"S","u","m","m","a","r","y">>,
      <<"1">>, <<"0">>, <<"7">>, <<" ">>, <<"_">>, <<"x">>, <<"-">> }

RECURSIVE Flatten(_)
Flatten(parts) == IF parts = <<>> THEN <<>> ELSE Head(parts) \o Flatten(Tail(parts))

ClassifyBodies == {Flatten(parts) : parts \in UNION {[1..n -> Chunks] : n \in 0..MaxParts}}

ClassifyPayloads == {TextPayload(b) : b \in ClassifyBodies}

\* webhook_entry on every payload of the runs, computed once.
MainEntries == [p \in MainPayloads |-> webhook_entry(p)]
ClassifyEntries == [p \in ClassifyPayloads |-> webhook_entry(p)]
EntryOf(p) == IF p \in MainPayloads THEN MainEntries[p] ELSE ClassifyEntries[p]

\* ----------------------------------------------------------------- actions
\* POST /android-webhook arrives at slot r.
Receive(r, p) ==
    /\ req[r].pc \in {"idle", "done"}
    /\ LET rq == EntryOf(p)
       IN  /\ rq.pc = "append" => Len(sheet.rows) + PendingAppends < MaxRows
           /\ req' = [req EXCEPT ![r] = rq]
    /\ UNCHANGED <<config, sheet>>

\* GET /trigger-daily-checkin?secret=... arrives at slot r.
CronReceive(r, provided_secret) ==
    /\ req[r].pc \in {"idle", "done"}
    /\ req' = [req EXCEPT ![r] = cron_entry(provided_secret)]
    /\ UNCHANGED <<config, sheet>>

\* entries = get_last_entries(3), and the text of the summary.
StoreRead(r, api_ok) ==
    /\ req[r].pc = "read"
    /\ LET err == store_error(api_ok)
           entries == get_last_entries(get_all_values(sheet), SummaryCount)
       IN  req' = [req EXCEPT ![r] =
                     IF err # ""
                     THEN raise([@ EXCEPT !.events = Append(@, "read_failed")], err)
                     ELSE [@ EXCEPT !.entries = entries, !.sms = summary_sms(entries),
                                    !.pc = after_store_call("read"),
                                    !.events = Append(@, "read")]]
    /\ UNCHANGED <<config, sheet>>

\* append_symptom_log(body, urgency) at the time now.
StoreAppend(r, now, api_ok) ==
    /\ req[r].pc = "append"
    /\ LET err == store_error(api_ok)
       IN  IF err # ""
           THEN /\ req' = [req EXCEPT ![r] =
                             raise([@ EXCEPT !.events = Append(@, "append_failed")], err)]
                /\ UNCHANGED sheet
           ELSE /\ sheet' = append_symptom_log(sheet, now, req[r].body, req[r].urgency)
                /\ req' = [req EXCEPT ![r] =
                             [@ EXCEPT !.sms = Sms("ack", <<>>),
                                       !.pc = after_store_call("append"),
                                       !.events = Append(@, "append")]]
    /\ UNCHANGED config

\* send_sms_via_android(text), then the handler's return.
SendAndRespond(r, http_ok) ==
    /\ req[r].pc = "send"
    /\ LET sent == send_sms_via_android(ANDROID_SEND_URL, http_ok)
           cur == req[r]
           resp == IF cur.route = "cron" THEN cron_return(sent)
                   ELSE webhook_return(cur.branch, cur.urgency, cur.entries, sent)
       IN  req' = [req EXCEPT ![r] =
                     [@ EXCEPT !.sent = sent, !.resp = resp, !.pc = "done",
                               !.events = @ \o <<"send", "respond">>]]
    /\ UNCHANGED <<config, sheet>>

\* The environments the process is started in.
Configs ==
    { <<TRUE, TRUE, TRUE, "s3cret">>,
      <<TRUE, TRUE, FALSE, None>>,
      <<FALSE, TRUE, TRUE, "">>,
      <<TRUE, FALSE, TRUE, "s3cret">> }

Init ==
    /\ \E c \in Configs :
          /\ GOOGLE_CREDENTIALS = c[1]
          /\ GOOGLE_SHEET_ID = c[2]
          /\ ANDROID_SEND_URL = c[3]
          /\ CRON_SECRET = c[4]
    /\ sheet \in {[header |-> h, rows |-> <<>>] : h \in BOOLEAN}
    /\ req = [r \in Req |-> IdleReq]

Next ==
    \/ \E r \in Req, p \in MainPayloads : Receive(r, p)
    \/ \E r \in Req, s \in ProvidedSecrets : CronReceive(r, s)
    \/ \E r \in Req, ok \in BOOLEAN : StoreRead(r, ok)
    \/ \E r \in Req, now \in Clock, ok \in BOOLEAN : StoreAppend(r, now, ok)
    \/ \E r \in Req, ok \in BOOLEAN : SendAndRespond(r, ok)

Spec == Init /\ [][Next]_vars

\* One worker, every setting present, one request per run: the webhook
\* applied to each body of ClassifyBodies.
Worker == "w1"

InitClassify ==
    /\ GOOGLE_CREDENTIALS = TRUE
    /\ GOOGLE_SHEET_ID = TRUE
    /\ ANDROID_SEND_URL = TRUE
    /\ CRON_SECRET = "s3cret"
    /\ sheet \in {[header |-> h, rows |-> <<>>] : h \in BOOLEAN}
    /\ req = [r \in Req |-> IdleReq]

NextClassify ==
    \/ req[Worker].pc = "idle" /\ \E p \in ClassifyPayloads : Receive(Worker, p)
    \/ \E ok \in BOOLEAN : StoreRead(Worker, ok)
    \/ \E now \in Clock, ok \in BOOLEAN : StoreAppend(Worker, now, ok)
    \/ \E ok \in BOOLEAN : SendAndRespond(Worker, ok)

SpecClassify == InitClassify /\ [][NextClassify]_vars

\* ------------------------------------------------- vocabulary of the claims
Done(r) == req[r].pc = "done"
IsWebhook(r) == req[r].route = "webhook"
IsCron(r) == req[r].route = "cron"

\* How many of the calls in ev are of the kinds in S.
Count(ev, S) == Cardinality({i \in DOMAIN ev : ev[i] \in S})

\* Every call of a kind in A comes before every call of a kind in B.
Before(ev, A, B) == \A i, j \in DOMAIN ev : (ev[i] \in A /\ ev[j] \in B) => i < j

StoreCalls == {"read", "read_failed", "append", "append_failed"}
StoreFailures == {"read_failed", "append_failed"}

\* A text made of whitespace only (the empty text included).
Blank(s) == \A i \in DOMAIN s : s[i] \in Whitespace

\* The payload is an object whose body member is a text.
HasText(p) == p.json = "object" /\ p.has_body /\ p.is_str

\* The payload is an object whose body member is absent, empty or blank.
EmptyBodyPayload(p) == p.json = "object" /\ (~p.has_body \/ (p.is_str /\ Blank(p.body)))

\* a and b are the same letter up to case, or the same character.
SameIgnoringCase(a, b) ==
    a = b \/ \E k \in 1..26 : {a, b} = {UpperLetters[k], LowerLetters[k]}

\* s contains the lower-case word w in any mix of cases.
HasWordIgnoreCase(s, w) ==
    \E i \in 1..(Len(s) - Len(w) + 1) :
        \A j \in 1..Len(w) : SameIgnoringCase(s[i + j - 1], w[j])

LinkWord == <<"l","i","n","k">>
SummaryWord == <<"s","u","m","m","a","r","y">>

\* The standalone tokens of s: the maximal runs of word characters, as <<first, last>>.
TokenSpans(s) ==
    LET starts == {i \in 1..Len(s) : s[i] \in WordChars /\ (i = 1 \/ s[i - 1] \notin WordChars)}
        last(i) == Min({j \in i..Len(s) : j = Len(s) \/ s[j + 1] \notin WordChars})
    IN  {<<i, last(i)>> : i \in starts}

\* The decimal texts of 1..10; UrgencyTexts[u] is the text of u.
UrgencyTexts == << <<"1">>, <<"2">>, <<"3">>, <<"4">>, <<"5">>, <<"6">>, <<"7">>,
                   <<"8">>, <<"9">>, <<"1","0">> >>

\* The standalone tokens of s that are a number 1..10.
UrgencyTokens(s) ==
    {t \in TokenSpans(s) : \E u \in DOMAIN UrgencyTexts : SubSeq(s, t[1], t[2]) = UrgencyTexts[u]}

\* The value of the first such token, scanning left to right.
FirstUrgency(s) ==
    LET first == CHOOSE t \in UrgencyTokens(s) : \A t2 \in UrgencyTokens(s) : t[1] <= t2[1]
    IN  CHOOSE u \in DOMAIN UrgencyTexts : SubSeq(s, first[1], first[2]) = UrgencyTexts[u]

\* The intent the specification's priority order gives a message.
ExpectedBranch(s) ==
    IF HasWordIgnoreCase(s, LinkWord) THEN "link"
    ELSE IF HasWordIgnoreCase(s, SummaryWord) THEN "summary"
    ELSE IF UrgencyTokens(s) # {} THEN "log"
    ELSE "help"

ActionTag(branch) ==
    CASE branch = "link"    -> "sent_link"
      [] branch = "summary" -> "sent_summary"
      [] branch = "log"     -> "logged_symptom"
      [] OTHER              -> "sent_help"

IsPrefix(a, b) == Len(a) <= Len(b) /\ SubSeq(b, 1, Len(a)) = a

\* The last n of rows, in their order.
LastRows(rows, n) == SubSeq(rows, IF Len(rows) > n THEN Len(rows) - n + 1 ELSE 1, Len(rows))

\* ------------------------------------------------------------------- C1
C1_Order(r) ==
    LET ev == req[r].events
    IN  /\ Before(ev, StoreCalls, {"send"})
        /\ Before(ev, {"send"}, {"respond"})
        /\ Before(ev, StoreCalls, {"respond"})
        /\ Count(ev, StoreCalls) <= 1
        /\ Count(ev, {"append"}) <= 1
        /\ Count(ev, {"send"}) <= 1
        /\ Count(ev, {"respond"}) <= 1

\* C1 as stated: the side effects of a webhook request come in the order store,
\* notifier, response; at most one store call, at most one append, at most one
\* notifier send; and every request dispatched to an intent sends exactly once.
C1_AsClaimed ==
    \A r \in Req : IsWebhook(r) =>
        /\ C1_Order(r)
        /\ (Done(r) /\ req[r].branch # "") => Count(req[r].events, {"send"}) = 1

\* C1 (amended): the same order and the same limits; a request dispatched to
\* an intent sends exactly once provided its store call, if any, did not raise.
C1_Sequential ==
    \A r \in Req : IsWebhook(r) =>
        /\ C1_Order(r)
        /\ (Done(r) /\ req[r].branch # "" /\ Count(req[r].events, StoreFailures) = 0)
              => Count(req[r].events, {"send"}) = 1

C1_Witness ==
    \E r \in Req : IsWebhook(r) /\ req[r].events = <<"append", "send", "respond">>

\* ------------------------------------------------------------------- C2
C2_Inv ==
    \A r \in Req : (IsWebhook(r) /\ (EmptyBodyPayload(req[r].payload) \/ req[r].payload = NoPayload)) =>
        /\ Done(r)
        /\ req[r].resp.code = 400
        /\ req[r].resp.error # ""
        /\ req[r].events = <<"respond">>

C2_Step ==
    \A r \in Req :
        (req'[r] # req[r] /\ req'[r].route = "webhook" /\ EmptyBodyPayload(req'[r].payload))
            => sheet' = sheet

\* C2: a webhook request whose body is missing, empty or whitespace-only is
\* answered 400 with an error, calls neither the store nor the notifier, and
\* leaves the worksheet as it was.
C2_EmptyBodyRejected == []C2_Inv /\ [][C2_Step]_vars

C2_Witness ==
    \E r \in Req : /\ IsWebhook(r) /\ HasText(req[r].payload)
                   /\ req[r].payload.body = <<" ">>
                   /\ req[r].resp.code = 400

\* ------------------------------------------------------------------- C3
\* C3: for a body that is not blank the branch is link if the text contains
\* "link" in any case, else summary if it contains "summary", else log if it
\* has a standalone number 1..10, else help; a link request makes no store
\* call; and the response, unless the store call raised, carries that action.
C3_Priority ==
    \A r \in Req : (IsWebhook(r) /\ HasText(req[r].payload) /\ ~Blank(req[r].payload.body)) =>
        LET want == ExpectedBranch(req[r].payload.body)
            ev == req[r].events
        IN  /\ req[r].branch = want
            /\ want = "link" => Count(ev, StoreCalls) = 0
            /\ Done(r) =>
                 \/ /\ req[r].resp.code = 200
                    /\ req[r].resp.status = "success"
                    /\ req[r].resp.action = ActionTag(want)
                 \/ /\ Count(ev, StoreFailures) = 1
                    /\ req[r].resp.code = 500

C3_Witness ==
    \E r \in Req : /\ Done(r)
                   /\ req[r].payload.body = <<"l","i","N","K","7">>
                   /\ req[r].resp.action = "sent_link"

\* ------------------------------------------------------------------- C4
\* C4: for a body without "link" and "summary" the webhook takes the log
\* branch, and calls the append, exactly when the text has a standalone token
\* 1..10; the urgency it appends and returns is the value of the first such
\* token; every urgency in the worksheet is in 1..10.
C4_Urgency ==
    /\ \A i \in DOMAIN sheet.rows : sheet.rows[i][4] \in 1..10
    /\ \A r \in Req :
         ( /\ IsWebhook(r) /\ HasText(req[r].payload) /\ ~Blank(req[r].payload.body)
           /\ ~HasWordIgnoreCase(req[r].payload.body, LinkWord)
           /\ ~HasWordIgnoreCase(req[r].payload.body, SummaryWord) ) =>
         LET s == req[r].payload.body
             has == UrgencyTokens(s) # {}
             ev == req[r].events
         IN  /\ (req[r].branch = "log") <=> has
             /\ ~has => Count(ev, {"append", "append_failed"}) = 0
             /\ has => req[r].urgency = FirstUrgency(s)
             /\ Count(ev, {"append"}) = 1 =>
                  /\ sheet.rows # <<>>
                  /\ sheet.rows[Len(sheet.rows)][3] = req[r].body
                  /\ sheet.rows[Len(sheet.rows)][4] = FirstUrgency(s)
             /\ Done(r) => ((Count(ev, {"append", "append_failed"}) = 1) <=> has)
             /\ (Done(r) /\ req[r].resp.code = 200) =>
                  /\ (Count(ev, {"append"}) = 1) <=> has
                  /\ has => req[r].resp.urgency = FirstUrgency(s)

C4_Witness ==
    \E r \in Req : /\ Done(r)
                   /\ req[r].payload.body = <<"7","-","1">>
                   /\ req[r].resp.action = "logged_symptom"
                   /\ req[r].resp.urgency = 7
                   /\ sheet.rows # <<>>

\* ------------------------------------------------------------------- C5
\* C5: right after a row is appended, get_last_entries(1) returns one record
\* with the body and the urgency of that row.
C5_RoundTrip ==
    sheet.rows # <<>> =>
        LET appended == sheet.rows[Len(sheet.rows)]
            got == get_last_entries(get_all_values(sheet), 1)
        IN  /\ Len(got) = 1
            /\ got[1].body = appended[3]
            /\ got[1].urgency = UrgencyTexts[appended[4]]

\* ------------------------------------------------------------------- C6
C6_Step ==
    \A r \in Req : (req[r].pc = "read" /\ req'[r].pc = "send") =>
        LET want == LastRows(sheet.rows, SummaryCount)
            got == req'[r].entries
        IN  /\ Len(got) = Len(want)
            /\ \A i \in DOMAIN want :
                 /\ got[i].date = want[i][1]
                 /\ got[i].body = want[i][3]
                 /\ got[i].urgency = UrgencyTexts[want[i][4]]

C6_Inv ==
    \A r \in Req : (Done(r) /\ req[r].resp.action = "sent_summary") =>
        /\ req[r].resp.entries_count = Len(req[r].entries)
        /\ req[r].entries = <<>> => req[r].sms.kind = "no_entries"
        /\ req[r].entries # <<>> =>
             /\ req[r].sms.kind = "summary"
             /\ Len(req[r].sms.lines) = Len(req[r].entries)

\* C6: a summary reports the last 3 entries of the store (all of them when it
\* holds fewer), in append order; entries_count is the number reported; with
\* no entry the "no entries" text is sent and entries_count is 0.
C6_SummaryLastThree == []C6_Inv /\ [][C6_Step]_vars

\* ------------------------------------------------------------------- C7
\* C7: the cron handler answers 500 when CRON_SECRET is not configured, else
\* 403 when the secret given is absent or different, in both cases without
\* calling the notifier; otherwise it calls the notifier exactly once and
\* answers 200 when the notifier reports success and 500 when it does not.
C7_CronGate ==
    \A r \in Req : IsCron(r) =>
        LET sends == Count(req[r].events, {"send"})
            configured == CRON_SECRET # None /\ CRON_SECRET # ""
            matches == req[r].secret = CRON_SECRET
        IN  /\ Count(req[r].events, StoreCalls) = 0
            /\ sends <= 1
            /\ ~configured => (Done(r) /\ req[r].resp.code = 500 /\ sends = 0)
            /\ (configured /\ ~matches) => (Done(r) /\ req[r].resp.code = 403 /\ sends = 0)
            /\ (configured /\ matches /\ Done(r)) =>
                 /\ sends = 1
                 /\ req[r].resp.code = (IF req[r].sent THEN 200 ELSE 500)

C7_Witness ==
    \E r \in Req : IsCron(r) /\ Done(r) /\ req[r].sent /\ req[r].resp.code = 200

\* ------------------------------------------------------------------- C8
C8_Inv ==
    /\ \A r \in Req : (IsWebhook(r) /\ Count(req[r].events, {"send"}) = 1) =>
          /\ Done(r)
          /\ req[r].resp.code = 200
          /\ req[r].resp.status = "success"
          /\ req[r].resp.action = ActionTag(req[r].branch)
    /\ \A r1, r2 \in Req :
          ( /\ IsWebhook(r1) /\ IsWebhook(r2) /\ Done(r1) /\ Done(r2)
            /\ req[r1].payload = req[r2].payload
            /\ req[r1].events = req[r2].events
            /\ req[r1].entries = req[r2].entries ) =>
          req[r1].resp = req[r2].resp

C8_Step ==
    \A r \in Req :
        Count(req'[r].events, {"send"}) > Count(req[r].events, {"send"}) => sheet' = sheet

\* C8: the webhook's response does not depend on whether the notifier send
\* succeeded: a request that sent answers 200 with its action, two requests
\* that differ only in the notifier's outcome answer the same, and the send
\* leaves the worksheet (an appended row included) as it was.
C8_NotifierFailureSwallowed == []C8_Inv /\ [][C8_Step]_vars

C8_Witness ==
    \E r1, r2 \in Req :
        /\ Done(r1) /\ Done(r2)
        /\ req[r1].payload = req[r2].payload
        /\ req[r1].resp.action = "logged_symptom"
        /\ req[r2].resp.action = "logged_symptom"
        /\ req[r1].sent /\ ~req[r2].sent
        /\ Len(sheet.rows) = 2

\* ------------------------------------------------------------------- C9
C9_Step ==
    /\ sheet'.header = sheet.header
    /\ IsPrefix(sheet.rows, sheet'.rows)
    /\ sheet' # sheet =>
         /\ Len(sheet'.rows) = Len(sheet.rows) + 1
         /\ \E r \in Req :
              /\ req[r].route = "webhook"
              /\ req'[r].events = Append(req[r].events, "append")
              /\ sheet'.rows[Len(sheet'.rows)][3] = req[r].body
              /\ sheet'.rows[Len(sheet'.rows)][4] = req[r].urgency
    /\ \A r \in Req :
         req'[r].events = Append(req[r].events, "append") => Len(sheet'.rows) = Len(sheet.rows) + 1

C9_Inv ==
    \A r \in Req :
        /\ Done(r) => ((req[r].resp.action = "logged_symptom") <=> (Count(req[r].events, {"append"}) = 1))
        /\ Count(req[r].events, {"append"}) <= 1
        /\ IsCron(r) => Count(req[r].events, {"append"}) = 0

\* C9: the worksheet only grows at its end: each step leaves the earlier rows
\* a prefix of the later ones; a step that changes it is the append of one
\* webhook request and adds one row; the requests that appended are those that
\* answer logged_symptom; every other request leaves it as it was.
C9_AppendOnly == []C9_Inv /\ [][C9_Step]_vars

C9_Witness ==
    \E r1, r2 \in Req :
        /\ Done(r1) /\ req[r1].resp.action = "logged_symptom"
        /\ Done(r2) /\ IsCron(r2)
        /\ Len(sheet.rows) = 2
        /\ sheet.rows[1] # sheet.rows[2]

====
